---- MODULE Spec2Model ----
(***************************************************************************)
(* Model of the recurring time-slot scheduler of cron_worker_backup        *)
(* (src/scheduler.py, class YouTubeScheduler): the daily slots, the        *)
(* persisted upload tracker (ledger), the non-blocking upload lock, the    *)
(* publication pipeline and the CSV audit log.                             *)
(*                                                                         *)
(* Time is the number of seconds since midnight of day 0 in the fixed zone *)
(* (Asia/Kolkata).  A slot string "HH:MM" is the pair <<HH, MM>>.  A        *)
(* calendar date is a day number.  The host clock used by the `schedule`   *)
(* library is taken to be in the same zone.                                *)
(***************************************************************************)
EXTENDS Integers, Sequences, FiniteSets, TLC

\* ------------------------------------------------------------------ bounds
MaxDay == 1
MaxRuns == 2
MaxFaults == 1
MaxLedgerDay == 9

\* ------------------------------------------------- configuration constants
upload_times == << <<7, 30>>, <<12, 29>>, <<19, 0>> >>
RecoveryWindow == 30
RetentionDays == 7

SecPerHour == 60 * 60
SecPerMin == SecPerHour \div 60
SecPerDay == 24 * SecPerHour

Threads == {"sched", "manual"}

\* ------------------------------------------------------------ time helpers
Date(t) == t \div SecPerDay
TimeOfDay(t) == t % SecPerDay
Hour(t) == TimeOfDay(t) \div SecPerHour
Minute(t) == (TimeOfDay(t) \div SecPerMin) % 60
\* strftime('%H:%M')
StrfHM(t) == <<Hour(t), Minute(t)>>
\* upload_hour * 60 + upload_minute after map(int, upload_time.split(':'))
upload_minutes(s) == s[1] * 60 + s[2]
current_minutes(t) == Hour(t) * 60 + Minute(t)
\* the instant of slot s on calendar day d
SlotInstant(d, s) == d * SecPerDay + upload_minutes(s) * SecPerMin

SlotIdx == 1..Len(upload_times)

\* Instants of a day at which the clock is observed: midnight and, for
\* every slot, its exact instant, the end of its recovery window and one
\* minute past it.  The code reads the clock to the minute only, so every
\* instant of a day behaves like one of these.
DayPoints ==
    {0} \cup UNION { { upload_minutes(upload_times[i]) * SecPerMin,
                       (upload_minutes(upload_times[i]) + RecoveryWindow) * SecPerMin,
                       (upload_minutes(upload_times[i]) + RecoveryWindow + 1) * SecPerMin }
                     : i \in SlotIdx }
TimePoints == { d * SecPerDay + p : d \in 0..MaxDay, p \in DayPoints }
\* the instants up to the end of the first slot's recovery window on the
\* last day: the clock of the specifications that run the scheduler for days
SchedulerPoints ==
    { t \in TimePoints :
        t <= SlotInstant(MaxDay, upload_times[1]) + (RecoveryWindow + 1) * SecPerMin }
\* the instants up to the end of the first slot's recovery window on day 0
FirstSlotPoints ==
    { t \in TimePoints :
        t <= SlotInstant(0, upload_times[1]) + (RecoveryWindow + 1) * SecPerMin }

\* ------------------------------------------------------------------- state
VARIABLES
    now,            \* get_current_ist_time()
    tracker_file,   \* contents of upload_tracker.json
    csv_log,        \* rows of exitLog.csv after the header
    outDir,         \* whether outputVideos/ exists
    videos,         \* .mp4 files in outputVideos/, named by the run that made them
    published,      \* videos on the platform: one entry per successful upload_video
    upload_lock,    \* "free" or the thread holding self.upload_lock
    is_running,     \* self.is_running
    jobs,           \* schedule.jobs: sequence of [slot, next_run]
    pc,             \* position of each thread
    upload_time,    \* argument of the current generate_and_upload_video call
    video_data,     \* the row under construction in _perform_upload
    tracker_data,   \* tracker loaded by _mark_upload_completed, to be saved
    latest_video,   \* the file chosen for upload
    exc,            \* an exception is propagating out of the call
    ctx,            \* scheduler thread: where the dispatch was called from
    sweep_now,      \* current_time sampled by _check_missed_schedules
    sweep_i,        \* index of the slot the sweep is at
    pending,        \* run_pending: jobs still to run in this pass
    tracker_at_start, \* the tracker file as start() found it, kept during the sweep
    next_upload,    \* run_scheduler: the instant get_next_upload_time returned
    last,           \* outcome of the dispatch a thread is returning from
    runs,           \* number of pipeline runs started
    faults,         \* number of collaborator and I/O failures so far
    second          \* a second scheduler thread: "none", "created" or "running"

vars == << now, tracker_file, csv_log, outDir, videos, published, upload_lock,
           is_running, jobs, pc, upload_time, video_data, tracker_data,
           latest_video, exc, ctx, sweep_now, sweep_i, pending,
           tracker_at_start, next_upload, last, runs, faults, second >>

persistent == << tracker_file, csv_log, outDir, videos, published >>

\* ------------------------------------------------------ values and helpers
NoSlot == <<0 - 1, 0 - 1>>
NoRow == [timestamp |-> 0 - 1, upload_time_slot |-> NoSlot, youtube_video_id |-> 0,
          upload_status |-> "none", error_message |-> "", run |-> 0, comment |-> "none",
          title |-> "none"]

\* video_data as initialised at the head of _perform_upload
InitialVideoData(t, s, r) ==
    [timestamp |-> Date(t), upload_time_slot |-> s, youtube_video_id |-> 0,
     upload_status |-> "failed", error_message |-> "", run |-> r, comment |-> "none",
     title |-> "none"]

\* the columns of a row written by csv.DictWriter
CsvRow(vd) ==
    [timestamp |-> vd.timestamp, upload_time_slot |-> vd.upload_time_slot,
     youtube_video_id |-> vd.youtube_video_id, upload_status |-> vd.upload_status,
     error_message |-> vd.error_message]

EmptyTracker == [valid |-> TRUE, completed_uploads |-> {}]
TruncatedTracker == [valid |-> FALSE, completed_uploads |-> {}]

\* f"{today}_{upload_time}"
UploadKey(t, s) == <<Date(t), s>>

\* a loader that takes an unreadable file for a ledger in which every slot
\* of every day is completed
load_upload_tracker_all_completed(file) ==
    IF file.valid THEN file.completed_uploads
    ELSE { [key |-> <<d, upload_times[i]>>, timestamp |-> d] :
               d \in 0..(MaxDay + 1), i \in SlotIdx }

\* _load_upload_tracker: an unreadable file yields an empty tracker
load_upload_tracker(file) ==
    IF file.valid THEN file.completed_uploads ELSE {}

\* a cleanup that also drops the entries dated exactly at the cutoff
cleanup_old_entries_at_cutoff(completed, t) ==
    { e \in completed : ~(e.timestamp <= Date(t) - RetentionDays) }

\* _cleanup_old_entries, on the in-memory copy
cleanup_old_entries(completed, t) ==
    { e \in completed : ~(e.timestamp < Date(t) - RetentionDays) }

\* a ledger check whose cleanup cutoff lies RetentionDays ahead of today
is_upload_completed_cutoff_ahead(file, s, t) ==
    UploadKey(t, s) \in
        { e.key : e \in { e \in load_upload_tracker(file) :
                             ~(e.timestamp < Date(t) + RetentionDays) } }

\* _is_upload_completed_today
is_upload_completed_today(file, s, t) ==
    UploadKey(t, s) \in
        { e.key : e \in cleanup_old_entries(load_upload_tracker(file), t) }

\* a mark that removes the key when the tracker already holds it
mark_upload_completed_toggle(file, s, t) ==
    IF UploadKey(t, s) \in { e.key : e \in load_upload_tracker(file) }
    THEN { e \in load_upload_tracker(file) : e.key # UploadKey(t, s) }
    ELSE load_upload_tracker(file) \cup { [key |-> UploadKey(t, s), timestamp |-> Date(t)] }

\* _mark_upload_completed up to the save: the dict after the assignment
mark_upload_completed(file, s, t) ==
    { e \in load_upload_tracker(file) : e.key # UploadKey(t, s) }
        \cup { [key |-> UploadKey(t, s), timestamp |-> Date(t)] }

\* video_files sorted by creation time, newest first: element 0
NewestVideo(vs) == CHOOSE v \in vs : \A w \in vs : w <= v

\* where a finished generate_and_upload_video call returns to
ReturnPc(p) ==
    IF p = "manual" THEN "trigger_ret"
    ELSE IF ctx = "sweep" THEN "sweep_ret" ELSE "job_ret"

schedVars == << is_running, jobs, ctx, sweep_now, sweep_i, pending, tracker_at_start,
               next_upload, second >>
locals == << upload_time, video_data, tracker_data, latest_video, exc >>

\* -------------------------------------------------------------------- Init
Init ==
    /\ now = 0
    /\ tracker_file = EmptyTracker
    /\ csv_log = << >>
    /\ outDir = FALSE
    /\ videos = {}
    /\ published = << >>
    /\ upload_lock = "free"
    /\ is_running = FALSE
    /\ jobs = << >>
    /\ pc = [p \in Threads |-> IF p = "sched" THEN "off" ELSE "idle"]
    /\ upload_time = [p \in Threads |-> NoSlot]
    /\ video_data = [p \in Threads |-> NoRow]
    /\ tracker_data = [p \in Threads |-> {}]
    /\ latest_video = [p \in Threads |-> 0]
    /\ exc = [p \in Threads |-> FALSE]
    /\ ctx = "none"
    /\ sweep_now = 0
    /\ sweep_i = 0
    /\ pending = << >>
    /\ tracker_at_start = EmptyTracker
    /\ next_upload = 0
    /\ last = [p \in Threads |-> "none"]
    /\ runs = 0
    /\ faults = 0
    /\ second = "none"

\* ------------------------------------------------------------------- clock
\* Time passes while every thread sleeps, is not running, or waits for
\* generate_video or upload_video; the other steps take no time.
SlowPcs == {"off", "idle", "loop", "generate", "upload"}

AdvanceTime(points) ==
    /\ \A p \in Threads : pc[p] \in SlowPcs
    /\ \E t \in points : t > now /\ now' = t
    /\ UNCHANGED << tracker_file, csv_log, outDir, videos, published, upload_lock,
                    pc, last, runs, faults >>
    /\ UNCHANGED schedVars
    /\ UNCHANGED locals

\* ------------------------------------------- generate_and_upload_video
\* early returns that write a row of status skipped
SkipDispatchLogged(log, s, t) ==
    Append(log, [timestamp |-> Date(t), upload_time_slot |-> s, youtube_video_id |-> 0,
                 upload_status |-> "skipped", error_message |-> ""])

\* the two early returns: a line in event.log, nothing in the CSV file
SkipDispatch(log, s, t) == log

\* the ledger check, made before the lock is taken
CheckCompleted(p) ==
    /\ pc[p] = "check"
    /\ IF is_upload_completed_today(tracker_file, upload_time[p], now)
       THEN /\ pc' = [pc EXCEPT ![p] = ReturnPc(p)]
            /\ last' = [last EXCEPT ![p] = "skip_completed"]
            /\ csv_log' = SkipDispatch(csv_log, upload_time[p], now)
       ELSE /\ pc' = [pc EXCEPT ![p] = "acquire"]
            /\ UNCHANGED << last, csv_log >>
    /\ UNCHANGED << now, tracker_file, outDir, videos, published,
                    upload_lock, runs, faults >>
    /\ UNCHANGED schedVars
    /\ UNCHANGED locals

\* a blocking-free acquire that does not look at the holder
TryAcquireAlways(lock, p) == p

\* upload_lock.acquire(blocking=False)
TryAcquire(lock, p) == IF lock = "free" THEN p ELSE lock

\* the non-blocking acquire and, when it succeeds, the head of _perform_upload
AcquireLock(p) ==
    /\ pc[p] = "acquire"
    /\ upload_lock' = TryAcquire(upload_lock, p)
    /\ IF upload_lock' = p
       THEN /\ runs < MaxRuns
            /\ runs' = runs + 1
            /\ video_data' = [video_data EXCEPT
                                ![p] = InitialVideoData(now, upload_time[p], runs + 1)]
            /\ pc' = [pc EXCEPT ![p] = "generate"]
            /\ UNCHANGED << last, csv_log >>
       ELSE /\ pc' = [pc EXCEPT ![p] = ReturnPc(p)]
            /\ last' = [last EXCEPT ![p] = "skip_busy"]
            /\ csv_log' = SkipDispatch(csv_log, upload_time[p], now)
            /\ UNCHANGED << runs, video_data >>
    /\ UNCHANGED << now, tracker_file, outDir, videos, published,
                    faults, upload_time, tracker_data, latest_video, exc >>
    /\ UNCHANGED schedVars

\* ---------------------------------------------------------- _perform_upload
GenerateOutcomes == {"ok", "silent", "nofile", "raise", "raise_escape"}
UploadOutcomes == {"ok", "raise", "raise_escape"}
IoOutcomes == {"ok", "fail"}

\* an outcome other than "ok" uses up one unit of the failure budget
Outcome(o) ==
    IF o = "ok" THEN faults' = faults
    ELSE faults < MaxFaults /\ faults' = faults + 1

\* an except clause that leaves the row as it is
HandleExceptionKeepsRow(vd, msg) == vd

\* the except clause of _perform_upload
HandleException(vd, msg) ==
    [vd EXCEPT !.error_message = msg, !.upload_status = "failed"]

\* generate_video().  "silent": it returns early without creating anything;
\* "nofile": it creates outputVideos/ but the export fails; "raise": it
\* raises; "raise_escape": it raises and the handler's traceback.print_exc()
\* raises in turn, so the exception leaves _perform_upload.
Generate(p, o) ==
    /\ pc[p] = "generate"
    /\ Outcome(o)
    /\ IF o \in {"raise", "raise_escape"}
       THEN /\ video_data' = [video_data EXCEPT
                                ![p] = HandleException(@, "generation")]
            /\ exc' = [exc EXCEPT ![p] = (o = "raise_escape")]
            /\ pc' = [pc EXCEPT ![p] = "log"]
            /\ UNCHANGED << outDir, videos >>
       ELSE /\ outDir' = (outDir \/ o \in {"ok", "nofile"})
            /\ videos' = IF o = "ok" THEN videos \cup {video_data[p].run} ELSE videos
            /\ pc' = [pc EXCEPT ![p] = "find"]
            /\ UNCHANGED << video_data, exc >>
    /\ UNCHANGED << now, tracker_file, csv_log, published, upload_lock, last,
                    runs,
                    upload_time, tracker_data, latest_video >>
    /\ UNCHANGED schedVars

\* an audit write that opens the file with mode 'w'
log_video_details_rewriting(log, vd, o) ==
    IF o = "ok" THEN << CsvRow(vd) >> ELSE log

\* _log_video_details: appends the row, or logs an error and returns
log_video_details(log, vd, o) ==
    IF o = "ok" THEN Append(log, CsvRow(vd)) ELSE log

\* a missing artifact that is recorded as a successful run
MissingArtifactSucceeds(vd, msg) ==
    [vd EXCEPT !.error_message = msg, !.upload_status = "success"]

\* no output directory, or no .mp4 file in it: the message is set, the
\* status stays as initialised
MissingArtifact(vd, msg) == [vd EXCEPT !.error_message = msg]

\* locate the artifact: the newest .mp4 file of outputVideos/
FindVideo(p, o) ==
    /\ pc[p] = "find"
    /\ IF ~outDir \/ videos = {}
       THEN /\ video_data' = [video_data EXCEPT ![p] =
                                 MissingArtifact(@, IF ~outDir THEN "nodir" ELSE "novideo")]
            /\ csv_log' = log_video_details(csv_log, video_data'[p], o)
            /\ Outcome(o)
            /\ pc' = [pc EXCEPT ![p] = "log"]
            /\ UNCHANGED latest_video
       ELSE /\ o = "ok"
            /\ UNCHANGED faults
            /\ latest_video' = [latest_video EXCEPT ![p] = NewestVideo(videos)]
            /\ pc' = [pc EXCEPT ![p] = "title"]
            /\ UNCHANGED << video_data, csv_log >>
    /\ UNCHANGED << now, tracker_file, outDir, videos, published, upload_lock,
                    last, runs,
                    upload_time, tracker_data, exc >>
    /\ UNCHANGED schedVars

\* what create_video_title can meet.  "api_fail": the chat completion call
\* or track_usage raises, inside the try; "unparsable": the response holds
\* no title; "client_fail": an import, load_dotenv() or openai.OpenAI(...)
\* raises, before the try is entered.
TitleOutcomes == {"ok", "api_fail", "unparsable", "client_fail"}

\* the title create_video_title returns when it returns
create_video_title(o) == IF o = "ok" THEN "ai" ELSE "fallback"

\* create_video_title and create_video_description, called inside the try
\* of _perform_upload
CreateTitle(p, o) ==
    /\ pc[p] = "title"
    /\ Outcome(o)
    /\ IF o = "client_fail"
       THEN /\ video_data' = [video_data EXCEPT ![p] = HandleException(@, "title")]
            /\ pc' = [pc EXCEPT ![p] = "log"]
       ELSE /\ video_data' = [video_data EXCEPT ![p].title = create_video_title(o)]
            /\ pc' = [pc EXCEPT ![p] = "upload"]
    /\ UNCHANGED << now, tracker_file, csv_log, outDir, videos, published, upload_lock,
                    last, runs,
                    upload_time, tracker_data, latest_video, exc >>
    /\ UNCHANGED schedVars

\* a pipeline that goes on to the comment whatever upload_video did
AfterUploadGoesOn(o) == "comment"

\* where _perform_upload continues after upload_video: the next statement,
\* or the except clause and then the finally clause
AfterUpload(o) == IF o = "ok" THEN "comment" ELSE "log"

\* upload_video(...)
Upload(p, o) ==
    /\ pc[p] = "upload"
    /\ Outcome(o)
    /\ IF o = "ok"
       THEN /\ published' = Append(published,
                                [key |-> <<video_data[p].timestamp, upload_time[p]>>,
                                 file |-> latest_video[p], run |-> video_data[p].run])
            /\ video_data' = [video_data EXCEPT
                                ![p].youtube_video_id = Len(published) + 1,
                                ![p].upload_status = "success",
                                ![p].error_message = ""]
            /\ UNCHANGED exc
       ELSE /\ video_data' = [video_data EXCEPT ![p] = HandleException(@, "upload")]
            /\ exc' = [exc EXCEPT ![p] = (o = "raise_escape")]
            /\ UNCHANGED published
    /\ pc' = [pc EXCEPT ![p] = AfterUpload(o)]
    /\ UNCHANGED << now, tracker_file, csv_log, outDir, videos, upload_lock, last,
                    runs,
                    upload_time, tracker_data, latest_video >>
    /\ UNCHANGED schedVars

\* a comment whose failure turns the run into a failed one
AfterCommentFailsRun(vd, o) ==
    IF o = "ok" THEN [vd EXCEPT !.comment = "ok"]
    ELSE [vd EXCEPT !.comment = "failed", !.upload_status = "failed"]

\* comment_id = self._post_comment(...): None only earns a warning
AfterComment(vd, o) == [vd EXCEPT !.comment = IF o = "ok" THEN "ok" ELSE "failed"]

\* _post_comment: returns the comment id, or None on any failure
PostComment(p, o) ==
    /\ pc[p] = "comment"
    /\ Outcome(o)
    /\ video_data' = [video_data EXCEPT ![p] = AfterComment(@, o)]
    /\ pc' = [pc EXCEPT ![p] = "mark"]
    /\ UNCHANGED << now, tracker_file, csv_log, outDir, videos, published,
                    upload_lock, last, runs,
                    upload_time, tracker_data, latest_video, exc >>
    /\ UNCHANGED schedVars

\* what open() and json.load get of the file: its contents, or an exception
\* (the file cannot be opened or read at this moment), which
\* _load_upload_tracker treats like an unreadable file
ReadFile(file, o) == IF o = "ok" THEN file ELSE TruncatedTracker

\* _mark_upload_completed: load the tracker and add today's key
MarkCompleted(p, o) ==
    /\ pc[p] = "mark"
    /\ Outcome(o)
    /\ tracker_data' = [tracker_data EXCEPT
                          ![p] = mark_upload_completed(ReadFile(tracker_file, o),
                                                       upload_time[p], now)]
    /\ pc' = [pc EXCEPT ![p] = "save_open"]
    /\ UNCHANGED << now, tracker_file, csv_log, outDir, videos, published,
                    upload_lock, last, runs,
                    upload_time, video_data, latest_video, exc >>
    /\ UNCHANGED schedVars

\* _save_upload_tracker, first half: open(file, 'w') truncates the file
SaveOpen(p, o) ==
    /\ pc[p] = "save_open"
    /\ Outcome(o)
    /\ IF o = "ok"
       THEN /\ tracker_file' = TruncatedTracker
            /\ pc' = [pc EXCEPT ![p] = "save_dump"]
            /\ UNCHANGED tracker_data
       ELSE /\ pc' = [pc EXCEPT ![p] = "delete"]
            /\ tracker_data' = [tracker_data EXCEPT ![p] = {}]
            /\ UNCHANGED tracker_file
    /\ UNCHANGED << now, csv_log, outDir, videos, published, upload_lock, last, runs,
                    upload_time, video_data, latest_video, exc >>
    /\ UNCHANGED schedVars

\* the file after json.dump ran to the end, or stopped part-way
DumpResult(data, o) ==
    IF o = "ok" THEN [valid |-> TRUE, completed_uploads |-> data]
    ELSE TruncatedTracker

\* _save_upload_tracker, second half: json.dump; any error is logged only
SaveDump(p, o) ==
    /\ pc[p] = "save_dump"
    /\ Outcome(o)
    /\ tracker_file' = DumpResult(tracker_data[p], o)
    /\ tracker_data' = [tracker_data EXCEPT ![p] = {}]
    /\ pc' = [pc EXCEPT ![p] = "delete"]
    /\ UNCHANGED << now, csv_log, outDir, videos, published, upload_lock, last, runs,
                    upload_time, video_data, latest_video, exc >>
    /\ UNCHANGED schedVars

\* a failed removal that turns the run into a failed one
AfterDeleteFailsRun(vd, o) ==
    IF o = "ok" THEN vd
    ELSE [vd EXCEPT !.error_message = "delete", !.upload_status = "failed"]

\* the except clause around os.remove: the warning goes into error_message
AfterDelete(vd, o) ==
    IF o = "ok" THEN vd ELSE [vd EXCEPT !.error_message = "delete"]

\* os.remove(latest_video); a failure is noted in the row
DeleteVideo(p, o) ==
    /\ pc[p] = "delete"
    /\ Outcome(o)
    /\ videos' = IF o = "ok" THEN videos \ {latest_video[p]} ELSE videos
    /\ video_data' = [video_data EXCEPT ![p] = AfterDelete(@, o)]
    /\ pc' = [pc EXCEPT ![p] = "log"]
    /\ UNCHANGED << now, tracker_file, csv_log, outDir, published, upload_lock,
                    last, runs,
                    upload_time, tracker_data, latest_video, exc >>
    /\ UNCHANGED schedVars

\* an audit write whose failure leaves _perform_upload as an exception
LoggedOrRaised(e, o) == e \/ o # "ok"

\* whether an exception is on its way out of _perform_upload after
\* _log_video_details: its own errors are caught and logged (lines 189-190)
Logged(e, o) == e

\* the finally clause of _perform_upload
LogDetails(p, o) ==
    /\ pc[p] = "log"
    /\ Outcome(o)
    /\ csv_log' = log_video_details(csv_log, video_data[p], o)
    /\ exc' = [exc EXCEPT ![p] = Logged(@, o)]
    /\ pc' = [pc EXCEPT ![p] = "release"]
    /\ UNCHANGED << now, tracker_file, outDir, videos, published, upload_lock,
                    last, runs >>
    /\ UNCHANGED << upload_time, video_data, tracker_data, latest_video >>
    /\ UNCHANGED schedVars

\* a release placed after the call instead of in a finally clause
ReleasedLockUnlessRaised(lock, p) == IF exc[p] THEN lock ELSE "free"

\* upload_lock.release() in the finally clause of generate_and_upload_video
ReleasedLock(lock, p) == "free"

ReleaseLock(p) ==
    /\ pc[p] = "release"
    /\ upload_lock' = ReleasedLock(upload_lock, p)
    /\ last' = [last EXCEPT ![p] = IF exc[p] THEN "raised" ELSE "ran"]
    /\ pc' = [pc EXCEPT ![p] = ReturnPc(p)]
    /\ video_data' = [video_data EXCEPT ![p] = NoRow]
    /\ latest_video' = [latest_video EXCEPT ![p] = 0]
    /\ UNCHANGED << now, tracker_file, csv_log, outDir, videos, published, runs, faults,
                    upload_time, tracker_data, exc >>
    /\ UNCHANGED schedVars

\* ----------------------------------------------------------- test_trigger_now
TestTriggerNow ==
    /\ pc["manual"] = "idle"
    /\ upload_time' = [upload_time EXCEPT !["manual"] = StrfHM(now)]
    /\ pc' = [pc EXCEPT !["manual"] = "check"]
    /\ UNCHANGED << now, tracker_file, csv_log, outDir, videos, published,
                    upload_lock, last, runs, faults,
                    video_data, tracker_data, latest_video, exc >>
    /\ UNCHANGED schedVars

\* the value test_trigger_now returns: True when generate_and_upload_video
\* returned, False when it raised
test_trigger_now_result(raised) == ~raised

\* its try/except around the call: True, or False when the call raised
TestTriggerReturn ==
    /\ pc["manual"] = "trigger_ret"
    /\ last' = [last EXCEPT !["manual"] = "none"]
    /\ pc' = [pc EXCEPT !["manual"] = "idle"]
    /\ upload_time' = [upload_time EXCEPT !["manual"] = NoSlot]
    /\ exc' = [exc EXCEPT !["manual"] = FALSE]
    /\ UNCHANGED << now, tracker_file, csv_log, outDir, videos, published,
                    upload_lock, runs, faults,
                    video_data, tracker_data, latest_video >>
    /\ UNCHANGED schedVars

\* ------------------------------------------------------- the schedule library
\* every().day.at(s): the first instant of slot s strictly after t
NextOccurrence(s, t) ==
    IF SlotInstant(Date(t), s) > t
    THEN SlotInstant(Date(t), s)
    ELSE SlotInstant(Date(t) + 1, s)

\* schedule_uploads: schedule.clear(), then one daily job per slot
schedule_uploads(t) ==
    [i \in SlotIdx |-> [slot |-> upload_times[i],
                        next_run |-> NextOccurrence(upload_times[i], t)]]

\* a job that is due only for the length of the recovery window
should_run_within_window(job, t) ==
    t >= job.next_run /\ t <= job.next_run + RecoveryWindow * SecPerMin

\* job.should_run
should_run(job, t) == t >= job.next_run

\* sorted(runnable jobs): by next_run, equal ones in list order
RECURSIVE SortedJobs(_, _)
SortedJobs(js, S) ==
    IF S = {} THEN << >>
    ELSE LET i == CHOOSE i \in S :
                     \A j \in S : \/ js[i].next_run < js[j].next_run
                                  \/ (js[i].next_run = js[j].next_run /\ i <= j)
         IN  << js[i].slot >> \o SortedJobs(js, S \ {i})

\* a pass that runs only the first of the due jobs
runnable_jobs_first_only(js, t) ==
    IF { i \in DOMAIN js : should_run(js[i], t) } = {} THEN << >>
    ELSE << Head(SortedJobs(js, { i \in DOMAIN js : should_run(js[i], t) })) >>

\* run_pending: the jobs for which should_run holds, sorted
runnable_jobs(js, t) ==
    SortedJobs(js, { i \in DOMAIN js : should_run(js[i], t) })

\* a job that is not scheduled again after it ran
RescheduleKeepsDue(js, s, t) == js

\* job.run(): after the job function returned, the job is scheduled again
Reschedule(js, s, t) ==
    [i \in DOMAIN js |-> IF js[i].slot = s
                         THEN [js[i] EXCEPT !.next_run = NextOccurrence(s, t)]
                         ELSE js[i]]

\* --------------------------------------------------------------- start / stop
\* start(): schedule_uploads() and the creation of the scheduler thread
Start ==
    /\ UNCHANGED << next_upload, second >>
    /\ ~is_running
    /\ pc["sched"] = "off"
    /\ tracker_at_start' = tracker_file
    /\ jobs' = schedule_uploads(now)
    /\ pc' = [pc EXCEPT !["sched"] = "thread_start"]
    /\ UNCHANGED << now, tracker_file, csv_log, outDir, videos, published,
                    upload_lock, is_running, ctx, sweep_now, sweep_i, pending,
                    last, runs, faults >>
    /\ UNCHANGED locals

\* start() called while the scheduler thread still exists and is_running
\* is False (the thread has not reached the first line of run_scheduler, or
\* stop() gave up its join): the test of is_running passes, the jobs are
\* set up again and one more thread is created.  The model follows the
\* second thread from its creation to its exit, without its dispatches.
StartAgain ==
    /\ pc["manual"] = "idle"
    /\ ~is_running
    /\ pc["sched"] # "off"
    /\ second = "none"
    /\ jobs' = schedule_uploads(now)
    /\ second' = "created"
    /\ UNCHANGED << now, tracker_file, csv_log, outDir, videos, published,
                    upload_lock, is_running, pc, ctx, sweep_now, sweep_i, pending,
                    tracker_at_start, next_upload, last, runs, faults >>
    /\ UNCHANGED locals

\* the second thread enters run_scheduler: self.is_running = True
SecondBegin ==
    /\ second = "created"
    /\ is_running' = TRUE
    /\ second' = "running"
    /\ UNCHANGED << now, tracker_file, csv_log, outDir, videos, published,
                    upload_lock, jobs, pc, ctx, sweep_now, sweep_i, pending,
                    tracker_at_start, next_upload, last, runs, faults >>
    /\ UNCHANGED locals

\* the second thread finds is_running False at the head of its loop
SecondExit ==
    /\ second = "running"
    /\ ~is_running
    /\ second' = "none"
    /\ UNCHANGED << now, tracker_file, csv_log, outDir, videos, published,
                    upload_lock, is_running, jobs, pc, ctx, sweep_now, sweep_i, pending,
                    tracker_at_start, next_upload, last, runs, faults >>
    /\ UNCHANGED locals

\* stop(), called on the main thread while a scheduler thread exists: the
\* flag is cleared and the caller waits in join(timeout=5)
StopRequest ==
    /\ UNCHANGED << next_upload, second >>
    /\ pc["manual"] = "idle"
    /\ pc["sched"] # "off"
    /\ is_running' = FALSE
    /\ pc' = [pc EXCEPT !["manual"] = "joining"]
    /\ UNCHANGED << now, tracker_file, csv_log, outDir, videos, published,
                    upload_lock, jobs, ctx, sweep_now, sweep_i, pending, tracker_at_start,
                    last, runs, faults >>
    /\ UNCHANGED locals

\* the join is over (the thread ended, or 5 seconds passed): schedule.clear()
\* and stop() returns
StopReturn ==
    /\ UNCHANGED << next_upload, second >>
    /\ pc["manual"] = "joining"
    /\ jobs' = << >>
    /\ pc' = [pc EXCEPT !["manual"] = "idle"]
    /\ UNCHANGED << now, tracker_file, csv_log, outDir, videos, published,
                    upload_lock, is_running, ctx, sweep_now, sweep_i, pending,
                    tracker_at_start, last, runs, faults >>
    /\ UNCHANGED locals

\* the SIGINT/SIGTERM handler of the application: stop(), up to the join
SignalHandler ==
    /\ UNCHANGED << next_upload, second >>
    /\ pc["manual"] = "idle"
    /\ pc["sched"] # "off"
    /\ is_running' = FALSE
    /\ pc' = [pc EXCEPT !["manual"] = "signal_join"]
    /\ UNCHANGED << now, tracker_file, csv_log, outDir, videos, published,
                    upload_lock, jobs, ctx, sweep_now, sweep_i, pending, tracker_at_start,
                    last, runs, faults >>
    /\ UNCHANGED locals

\* ------------------------------------------------------------- run_scheduler
\* a variant that keeps today's occurrence of a slot whose time is now
get_next_upload_time_not_rolled(times, t) ==
    LET next_uploads ==
            { IF SlotInstant(Date(t), times[i]) < t
              THEN SlotInstant(Date(t), times[i]) + SecPerDay
              ELSE SlotInstant(Date(t), times[i]) : i \in DOMAIN times }
    IN  CHOOSE m \in next_uploads : \A c \in next_uploads : m <= c

\* get_next_upload_time: today's occurrence of every slot, moved to tomorrow
\* when it is not after now; the earliest of them
get_next_upload_time(times, t) ==
    LET next_uploads ==
            { IF SlotInstant(Date(t), times[i]) <= t
              THEN SlotInstant(Date(t), times[i]) + SecPerDay
              ELSE SlotInstant(Date(t), times[i]) : i \in DOMAIN times }
    IN  CHOOSE m \in next_uploads : \A c \in next_uploads : m <= c

\* the head of run_scheduler; the next upload time is computed for a log
\* line and not used after it
RunSchedulerBegin ==
    /\ pc["sched"] = "thread_start"
    /\ is_running' = TRUE
    /\ next_upload' = get_next_upload_time(upload_times, now)
    /\ UNCHANGED second
    /\ pc' = [pc EXCEPT !["sched"] = "sweep_init"]
    /\ UNCHANGED << now, tracker_file, csv_log, outDir, videos, published,
                    upload_lock, jobs, ctx, sweep_now, sweep_i, pending, tracker_at_start,
                    last, runs, faults >>
    /\ UNCHANGED locals

\* _check_missed_schedules: current_time is read once, before the loop
SweepInit ==
    /\ pc["sched"] = "sweep_init"
    /\ next_upload' = 0
    /\ UNCHANGED second
    /\ sweep_now' = now
    /\ sweep_i' = 1
    /\ pc' = [pc EXCEPT !["sched"] = "sweep"]
    /\ UNCHANGED << now, tracker_file, csv_log, outDir, videos, published,
                    upload_lock, is_running, jobs, ctx, pending, tracker_at_start,
                    last, runs, faults >>
    /\ UNCHANGED locals

\* the test of _check_missed_schedules on one slot
Missed(s, t) ==
    /\ upload_minutes(s) < current_minutes(t)
    /\ current_minutes(t) <= upload_minutes(s) + RecoveryWindow

\* the sweep's loop, from slot sweep_i on: dispatch the next missed slot,
\* or leave the loop and enter the polling loop
SweepStep ==
    /\ UNCHANGED << next_upload, second >>
    /\ pc["sched"] = "sweep"
    /\ LET rest == { i \in SlotIdx : i >= sweep_i /\ Missed(upload_times[i], sweep_now) }
       IN  IF rest = {}
           THEN /\ pc' = [pc EXCEPT !["sched"] = "sweep_done"]
                /\ sweep_i' = 0
                /\ ctx' = "none"
                /\ UNCHANGED upload_time
           ELSE LET i == CHOOSE i \in rest : \A j \in rest : i <= j
                IN  /\ sweep_i' = i
                    /\ ctx' = "sweep"
                    /\ upload_time' = [upload_time EXCEPT !["sched"] = upload_times[i]]
                    /\ pc' = [pc EXCEPT !["sched"] = "check"]
    /\ UNCHANGED << now, tracker_file, csv_log, outDir, videos, published,
                    upload_lock, is_running, jobs, sweep_now, pending, tracker_at_start,
                    last, runs, faults,
                    video_data, tracker_data, latest_video, exc >>

\* a caller with no try/except around the dispatch: a raised exception ends
\* the thread
AfterDispatchUncaught(raised, cont) == IF raised THEN "off" ELSE cont

\* the try/except around the dispatch, in _check_missed_schedules and around
\* run_pending in run_scheduler: the error is logged and the caller goes on
AfterDispatch(raised, cont) == cont

\* back in the sweep: its try/except logs whatever the call raised
SweepReturn ==
    /\ UNCHANGED << next_upload, second >>
    /\ pc["sched"] = "sweep_ret"
    /\ sweep_i' = sweep_i + 1
    /\ exc' = [exc EXCEPT !["sched"] = FALSE]
    /\ upload_time' = [upload_time EXCEPT !["sched"] = NoSlot]
    /\ last' = [last EXCEPT !["sched"] = "none"]
    /\ pc' = [pc EXCEPT !["sched"] = AfterDispatch(exc["sched"], "sweep")]
    /\ UNCHANGED << now, tracker_file, csv_log, outDir, videos, published,
                    upload_lock, is_running, jobs, ctx, sweep_now, pending, tracker_at_start,
                    runs, faults,
                    video_data, tracker_data, latest_video >>

\* _check_missed_schedules returns; run_scheduler enters its polling loop
SweepDone ==
    /\ UNCHANGED << next_upload, second >>
    /\ pc["sched"] = "sweep_done"
    /\ sweep_now' = 0
    /\ tracker_at_start' = EmptyTracker
    /\ pc' = [pc EXCEPT !["sched"] = "loop"]
    /\ UNCHANGED << now, tracker_file, csv_log, outDir, videos, published,
                    upload_lock, is_running, jobs, ctx, sweep_i, pending,
                    last, runs, faults >>
    /\ UNCHANGED locals

\* while self.is_running: schedule.run_pending() collects the due jobs
LoopIteration ==
    /\ UNCHANGED << next_upload, second >>
    /\ pc["sched"] = "loop"
    /\ IF ~is_running
       THEN /\ pc' = [pc EXCEPT !["sched"] = "off"]
            /\ UNCHANGED pending
       ELSE /\ runnable_jobs(jobs, now) # << >>
            /\ pending' = runnable_jobs(jobs, now)
            /\ pc' = [pc EXCEPT !["sched"] = "jobs"]
    /\ UNCHANGED << now, tracker_file, csv_log, outDir, videos, published,
                    upload_lock, is_running, jobs, ctx, sweep_now, sweep_i, tracker_at_start,
                    last, runs, faults >>
    /\ UNCHANGED locals

\* run_pending: run the next collected job, or sleep and poll again
JobStep ==
    /\ UNCHANGED << next_upload, second >>
    /\ pc["sched"] = "jobs"
    /\ IF pending = << >>
       THEN /\ pc' = [pc EXCEPT !["sched"] = "loop"]
            /\ ctx' = "none"
            /\ UNCHANGED upload_time
       ELSE /\ ctx' = "job"
            /\ upload_time' = [upload_time EXCEPT !["sched"] = Head(pending)]
            /\ pc' = [pc EXCEPT !["sched"] = "check"]
    /\ UNCHANGED << now, tracker_file, csv_log, outDir, videos, published,
                    upload_lock, is_running, jobs, sweep_now, sweep_i, pending, tracker_at_start,
                    last, runs, faults,
                    video_data, tracker_data, latest_video, exc >>

\* the job function returned: the job is scheduled for its next occurrence;
\* if it raised, run_pending is left at once and run_scheduler logs the error
JobReturn ==
    /\ UNCHANGED << next_upload, second >>
    /\ pc["sched"] = "job_ret"
    /\ IF exc["sched"]
       THEN /\ pending' = << >>
            /\ UNCHANGED jobs
       ELSE /\ pending' = Tail(pending)
            /\ jobs' = Reschedule(jobs, upload_time["sched"], now)
    /\ exc' = [exc EXCEPT !["sched"] = FALSE]
    /\ upload_time' = [upload_time EXCEPT !["sched"] = NoSlot]
    /\ last' = [last EXCEPT !["sched"] = "none"]
    /\ pc' = [pc EXCEPT !["sched"] = AfterDispatch(exc["sched"], "jobs")]
    /\ UNCHANGED << now, tracker_file, csv_log, outDir, videos, published,
                    upload_lock, is_running, ctx, sweep_now, sweep_i, tracker_at_start,
                    runs, faults,
                    video_data, tracker_data, latest_video >>

\* ------------------------------------------------------------ process crash
\* _initialize_csv_log: the header is written only when the file is missing,
\* and the file exists from the first construction on
initialize_csv_log(log) == log

\* The process dies at an arbitrary point and is constructed again: files
\* and published videos stay, everything in memory is as after __init__.
Crash ==
    /\ upload_lock' = "free"
    /\ is_running' = FALSE
    /\ jobs' = << >>
    /\ pc' = [p \in Threads |-> IF p = "sched" THEN "off" ELSE "idle"]
    /\ upload_time' = [p \in Threads |-> NoSlot]
    /\ video_data' = [p \in Threads |-> NoRow]
    /\ tracker_data' = [p \in Threads |-> {}]
    /\ latest_video' = [p \in Threads |-> 0]
    /\ exc' = [p \in Threads |-> FALSE]
    /\ ctx' = "none"
    /\ sweep_now' = 0
    /\ sweep_i' = 0
    /\ pending' = << >>
    /\ tracker_at_start' = EmptyTracker
    /\ next_upload' = 0
    /\ second' = "none"
    /\ last' = [p \in Threads |-> "none"]
    /\ csv_log' = initialize_csv_log(csv_log)
    /\ UNCHANGED << now, tracker_file, outDir, videos, published, runs, faults >>

\* the rest of the signal handler: stop() returns and sys.exit(0) ends the
\* process, and with it the daemon scheduler thread wherever it is
SysExit ==
    /\ pc["manual"] = "signal_join"
    /\ Crash

\* ------------------------------------------------------------ specification
\* one step of a generate_and_upload_video call of thread p, from the lock
\* on (Run) or from the ledger check on (Pipeline); G, T, U, R and IO are the
\* outcomes generate_video, create_video_title, upload_video, the read of
\* the tracker in _mark_upload_completed and the other file operations can
\* have
Run(p, G, T, U, R, IO) ==
    \/ AcquireLock(p)
    \/ \E o \in G : Generate(p, o)
    \/ \E o \in IO : FindVideo(p, o)
    \/ \E o \in T : CreateTitle(p, o)
    \/ \E o \in U : Upload(p, o)
    \/ \E o \in IO : PostComment(p, o)
    \/ \E o \in R : MarkCompleted(p, o)
    \/ \E o \in IO : SaveOpen(p, o)
    \/ \E o \in IO : SaveDump(p, o)
    \/ \E o \in IO : DeleteVideo(p, o)
    \/ \E o \in IO : LogDetails(p, o)
    \/ ReleaseLock(p)

Pipeline(p, G, T, U, R, IO) == CheckCompleted(p) \/ Run(p, G, T, U, R, IO)

\* the scheduler thread, from start() on
Scheduler ==
    \/ Start
    \/ RunSchedulerBegin
    \/ SweepInit
    \/ SweepStep
    \/ SweepReturn
    \/ SweepDone
    \/ LoopIteration
    \/ JobStep
    \/ JobReturn

\* The scheduler alone, from day 0 to the first slot of the last day, with
\* failing collaborators.
Next ==
    \/ AdvanceTime(SchedulerPoints)
    \/ Scheduler
    \/ Pipeline("sched", GenerateOutcomes, {"ok"}, UploadOutcomes, {"ok"}, IoOutcomes)

Spec == Init /\ [][Next]_vars

\* The scheduler and a second thread calling test_trigger_now, around the
\* first slot.
NextManual ==
    \/ AdvanceTime(FirstSlotPoints)
    \/ Scheduler
    \/ TestTriggerNow
    \/ TestTriggerReturn
    \/ \E p \in Threads : Pipeline(p, GenerateOutcomes, {"ok"}, UploadOutcomes, {"ok"}, IoOutcomes)

SpecManual == Init /\ [][NextManual]_vars

\* The scheduler with collaborators and file operations that succeed, in a
\* process that can die and be started again.
NextCrash ==
    \/ AdvanceTime(SchedulerPoints)
    \/ Scheduler
    \/ Crash
    \/ Pipeline("sched", {"ok"}, {"ok"}, {"ok"}, {"ok"}, {"ok"})

SpecCrash == Init /\ [][NextCrash]_vars

\* The scheduler and the second thread with collaborators and file
\* operations that succeed: only the interleaving of the two threads varies.
NextRace ==
    \/ AdvanceTime(FirstSlotPoints)
    \/ Scheduler
    \/ TestTriggerNow
    \/ TestTriggerReturn
    \/ \E p \in Threads : Pipeline(p, {"ok"}, {"ok"}, {"ok"}, {"ok"}, {"ok"})

SpecRace == Init /\ [][NextRace]_vars

\* The scheduler with collaborators and file operations that succeed, and a
\* main thread that calls stop() or receives a termination signal.
NextStop ==
    \/ AdvanceTime(SchedulerPoints)
    \/ Scheduler
    \/ StopRequest
    \/ StopReturn
    \/ SignalHandler
    \/ SysExit
    \/ Pipeline("sched", {"ok"}, {"ok"}, {"ok"}, {"ok"}, {"ok"})

SpecStop == Init /\ [][NextStop]_vars

\* The scheduler around the first slot, with collaborators and file
\* operations that succeed, and a main thread that calls start() and stop()
\* in any order.
NextStart ==
    \/ AdvanceTime(FirstSlotPoints)
    \/ Scheduler
    \/ StartAgain
    \/ SecondBegin
    \/ SecondExit
    \/ StopRequest
    \/ StopReturn
    \/ Pipeline("sched", {"ok"}, {"ok"}, {"ok"}, {"ok"}, {"ok"})

SpecStart == Init /\ [][NextStart]_vars

\* The scheduler alone with a generate_video that can raise, and a thread
\* that is never held up for ever: time.sleep(5) returns, and generate_video
\* and upload_video return or raise.
SchedulerThread ==
    \/ Scheduler
    \/ Pipeline("sched", {"ok", "raise", "raise_escape"}, {"ok"}, {"ok"}, {"ok"}, {"ok"})

NextLive ==
    \/ AdvanceTime(SchedulerPoints)
    \/ SchedulerThread

SpecLive == Init /\ [][NextLive]_vars /\ WF_vars(SchedulerThread)

\* One thread calling test_trigger_now around the first slot, with every
\* collaborator and file operation of the pipeline able to fail.
NextTrigger ==
    \/ AdvanceTime(FirstSlotPoints)
    \/ TestTriggerNow
    \/ TestTriggerReturn
    \/ Pipeline("manual", GenerateOutcomes, TitleOutcomes, UploadOutcomes, IoOutcomes,
                IoOutcomes)

SpecTrigger == Init /\ [][NextTrigger]_vars

\* The same thread in a process that can die at any point and be
\* constructed again.
NextRestart ==
    \/ NextTrigger
    \/ Crash

SpecRestart == Init /\ [][NextRestart]_vars

\* ------------------------------------------------ the ledger over many days
\* the entry _mark_upload_completed writes for slot s on day d
LedgerEntry(d, s) == [key |-> <<d, s>>, timestamp |-> d]
\* the instants of the first slot on the days of the ledger's history
LedgerTimes == { SlotInstant(d, upload_times[1]) : d \in 0..MaxLedgerDay }
\* ledgers left by earlier days: at most two entries of the first slot, none
\* later than today (the persisted ledger is never pruned)
Ledgers(t) ==
    { [valid |-> TRUE, completed_uploads |-> S] :
        S \in { S \in SUBSET { LedgerEntry(d, upload_times[1]) : d \in 0..Date(t) } :
                   Cardinality(S) <= 2 } }

InitLedger ==
    /\ now \in LedgerTimes
    /\ tracker_file \in Ledgers(now)
    /\ csv_log = << >>
    /\ outDir = FALSE
    /\ videos = {}
    /\ published = << >>
    /\ upload_lock = "free"
    /\ is_running = FALSE
    /\ jobs = << >>
    /\ pc = [p \in Threads |-> IF p = "sched" THEN "off" ELSE "idle"]
    /\ upload_time = [p \in Threads |-> NoSlot]
    /\ video_data = [p \in Threads |-> NoRow]
    /\ tracker_data = [p \in Threads |-> {}]
    /\ latest_video = [p \in Threads |-> 0]
    /\ exc = [p \in Threads |-> FALSE]
    /\ ctx = "none"
    /\ sweep_now = 0
    /\ sweep_i = 0
    /\ pending = << >>
    /\ tracker_at_start = EmptyTracker
    /\ next_upload = 0
    /\ last = [p \in Threads |-> "none"]
    /\ runs = 0
    /\ faults = 0
    /\ second = "none"

\* test_trigger_now up to the ledger check of generate_and_upload_video
LedgerCheckBegin ==
    /\ pc["manual"] = "idle"
    /\ upload_time' = [upload_time EXCEPT !["manual"] = StrfHM(now)]
    /\ pc' = [pc EXCEPT !["manual"] = "load"]
    /\ UNCHANGED << now, tracker_file, csv_log, outDir, videos, published,
                    upload_lock, last, runs, faults,
                    video_data, tracker_data, latest_video, exc >>
    /\ UNCHANGED schedVars

\* _is_upload_completed_today, step by step: load the tracker
LedgerLoad(p) ==
    /\ pc[p] = "load"
    /\ tracker_data' = [tracker_data EXCEPT ![p] = load_upload_tracker(tracker_file)]
    /\ pc' = [pc EXCEPT ![p] = "cleanup"]
    /\ UNCHANGED << now, tracker_file, csv_log, outDir, videos, published,
                    upload_lock, last, runs, faults,
                    upload_time, video_data, latest_video, exc >>
    /\ UNCHANGED schedVars

\* ... call _cleanup_old_entries on the loaded dict
LedgerCleanup(p) ==
    /\ pc[p] = "cleanup"
    /\ tracker_data' = [tracker_data EXCEPT ![p] = cleanup_old_entries(@, now)]
    /\ pc' = [pc EXCEPT ![p] = "lookup"]
    /\ UNCHANGED << now, tracker_file, csv_log, outDir, videos, published,
                    upload_lock, last, runs, faults,
                    upload_time, video_data, latest_video, exc >>
    /\ UNCHANGED schedVars

\* ... look today's key up in it; the dict is dropped on return
LedgerLookup(p) ==
    /\ pc[p] = "lookup"
    /\ IF UploadKey(now, upload_time[p]) \in { e.key : e \in tracker_data[p] }
       THEN /\ pc' = [pc EXCEPT ![p] = ReturnPc(p)]
            /\ last' = [last EXCEPT ![p] = "skip_completed"]
            /\ csv_log' = SkipDispatch(csv_log, upload_time[p], now)
       ELSE /\ pc' = [pc EXCEPT ![p] = "acquire"]
            /\ UNCHANGED << last, csv_log >>
    /\ tracker_data' = [tracker_data EXCEPT ![p] = {}]
    /\ UNCHANGED << now, tracker_file, outDir, videos, published,
                    upload_lock, runs, faults,
                    upload_time, video_data, latest_video, exc >>
    /\ UNCHANGED schedVars

\* A thread calling test_trigger_now at the first slot's time on several
\* days, over a ledger that holds entries of earlier days.
NextLedger ==
    \/ AdvanceTime(LedgerTimes)
    \/ LedgerCheckBegin
    \/ LedgerLoad("manual")
    \/ LedgerCleanup("manual")
    \/ LedgerLookup("manual")
    \/ TestTriggerReturn
    \/ Run("manual", {"ok"}, {"ok"}, {"ok"}, {"ok"}, {"ok"})

SpecLedger == InitLedger /\ [][NextLedger]_vars

\* ------------------------------------------------------------- vocabulary
\* positions inside _perform_upload and up to the release of the lock
PipelinePcs == {"generate", "find", "title", "upload", "comment", "mark", "save_open",
                "save_dump", "delete", "log", "release"}

\* the RunKey of an audit row: the date of its timestamp and its slot
RowKey(r) == <<r.timestamp, r.upload_time_slot>>
SuccessRows(k) ==
    { i \in DOMAIN csv_log : csv_log[i].upload_status = "success" /\ RowKey(csv_log[i]) = k }
Publishes(k) == { i \in DOMAIN published : published[i].key = k }
\* the keys the persisted ledger holds
LedgerKeys(file) == { e.key : e \in load_upload_tracker(file) }
KeysSeen ==
    { RowKey(csv_log[i]) : i \in DOMAIN csv_log }
        \cup { published[i].key : i \in DOMAIN published }
        \cup LedgerKeys(tracker_file)

\* t lies in [slot instant, slot instant + recovery window] of its day
InRecoveryWindow(s, t) ==
    /\ SlotInstant(Date(t), s) <= t
    /\ t <= SlotInstant(Date(t), s) + RecoveryWindow * SecPerMin

\* ---------------------------------------------------------------------- C1
\* C1: for every RunKey, whatever calls of generate_and_upload_video overlap
\* or repeat, at most one audit row of that RunKey has status success and
\* upload_video succeeds at most once.
C1_AtMostOneSuccessPerRunKey ==
    \A k \in KeysSeen :
        /\ Cardinality(SuccessRows(k)) <= 1
        /\ Cardinality(Publishes(k)) <= 1

\* ---------------------------------------------------------------------- C2
\* C2: with no run in flight, a success row exists for a RunKey exactly when
\* the persisted ledger holds that RunKey; no success row is written while
\* the ledger lacks the entry.
C2_SuccessRowIffLedgerEntry ==
    upload_lock = "free" =>
        /\ \A i \in DOMAIN csv_log :
              csv_log[i].upload_status = "success"
                  => RowKey(csv_log[i]) \in LedgerKeys(tracker_file)
        /\ \A k \in LedgerKeys(tracker_file) : SuccessRows(k) # {}

\* ---------------------------------------------------------------------- C3
\* C3: a configured slot is published at most once per calendar day, also
\* when the process dies during a run and is started again.
C3_PublishedOncePerDayAcrossCrashes ==
    \A d \in 0..MaxDay : \A i \in SlotIdx :
        \A m, n \in Publishes(<<d, upload_times[i]>>) : m = n

\* ---------------------------------------------------------------------- C4
\* C4: when the scheduler starts at an instant from a slot's due time to the
\* end of its recovery window and the ledger has no entry for today's RunKey,
\* then, collaborators succeeding, once the start-up sweep is over the slot
\* has run exactly once (or its job is still to fire inside the window), the
\* ledger holds the RunKey and exactly one success row is written.
C4_RestartInWindowRunsOnce ==
    pc["sched"] = "sweep_done" =>
        \A i \in SlotIdx :
            LET s == upload_times[i]
                k == UploadKey(sweep_now, s)
            IN  (InRecoveryWindow(s, sweep_now) /\ k \notin LedgerKeys(tracker_at_start))
                    => \/ /\ Cardinality(Publishes(k)) = 1
                          /\ k \in LedgerKeys(tracker_file)
                          /\ Cardinality(SuccessRows(k)) = 1
                       \/ \E j \in DOMAIN jobs :
                              /\ jobs[j].slot = s
                              /\ InRecoveryWindow(s, jobs[j].next_run)
                              /\ Date(jobs[j].next_run) = Date(sweep_now)

\* ---------------------------------------------------------------------- C5
\* C5: at most one thread is inside _perform_upload, and it holds the lock;
\* a call that finds the lock held returns in that very step, without
\* starting a run and without touching the lock.
C5_Inv ==
    /\ Cardinality({ p \in Threads : pc[p] \in PipelinePcs }) <= 1
    /\ \A p \in Threads : pc[p] \in PipelinePcs => upload_lock = p
C5_Step ==
    \A p \in Threads :
        (pc[p] = "acquire" /\ upload_lock # "free" /\ pc'[p] # pc[p])
            => /\ pc'[p] = ReturnPc(p)
               /\ runs' = runs
               /\ upload_lock' = upload_lock
               /\ persistent' = persistent
C5_OnePipelineRunInFlight == [](C5_Inv) /\ [][C5_Step]_vars
C5_Witness ==
    \E p, q \in Threads : last[p] = "skip_busy" /\ pc[q] \in PipelinePcs

\* ---------------------------------------------------------------------- C6
\* C6: the lock is held only by a thread inside the protected section, and
\* every step that leaves the protected section (success, failure, or an
\* exception leaving _perform_upload) leaves the lock free.
C6_Inv == \A p \in Threads : upload_lock = p => pc[p] \in PipelinePcs
C6_Step ==
    \A p \in Threads :
        (pc[p] \in PipelinePcs /\ pc'[p] \notin PipelinePcs) => upload_lock' = "free"
C6_GuardReleasedOnEveryExit == [](C6_Inv) /\ [][C6_Step]_vars
C6_Witness == \E p \in Threads : last[p] = "raised" /\ upload_lock = "free"

\* ---------------------------------------------------------------------- C7
\* C7: every pipeline run that started has appended exactly one audit row
\* by the time it has released the lock, whatever its exit path.
C7_OneRowPerRun == upload_lock = "free" => Len(csv_log) = runs

\* ---------------------------------------------------------------------- C8
\* a dispatch of thread p that ends without running the pipeline
SkipStep(p) == pc[p] \in {"check", "acquire"} /\ pc'[p] = ReturnPc(p)
C9_Step ==
    \A p \in Threads :
        ( /\ pc[p] = "check"
          /\ tracker_file.valid
          /\ UploadKey(now, upload_time[p]) \in
                 { e.key : e \in tracker_file.completed_uploads }
          /\ pc'[p] # pc[p] )
            => /\ pc'[p] = ReturnPc(p)
               /\ runs' = runs
               /\ upload_lock' = upload_lock
               /\ tracker_file' = tracker_file
               /\ published' = published
               /\ videos' = videos
               /\ outDir' = outDir
C9_CompletedSlotIsSkipped == [][C9_Step]_vars
C9_Witness == \E p \in Threads : last[p] = "skip_completed"

\* --------------------------------------------------------------------- C10
\* the scheduler is back in run_pending from a run of its slot that ended
\* failed, the call having returned normally, while the slot is inside its
\* window and not completed
FailedJobReturned ==
    /\ pc["sched"] = "job_ret"
    /\ last["sched"] = "ran"
    /\ csv_log # << >>
    /\ csv_log[Len(csv_log)].upload_status = "failed"
    /\ csv_log[Len(csv_log)].upload_time_slot = upload_time["sched"]
    /\ UploadKey(now, upload_time["sched"]) \notin LedgerKeys(tracker_file)
    /\ InRecoveryWindow(upload_time["sched"], now)
CompletedBeforeWrite(p) ==
    { e \in tracker_data[p] : e.key # UploadKey(now, upload_time[p]) }
\* C11: when a ledger write is cut off between the opening of the file for
\* writing and the end of the dump, every entry that was completed before
\* the write is still in the ledger the restarted process loads.
C11_InterruptedWriteKeepsEntries ==
    [][\A p \in Threads :
          (pc[p] = "save_dump" /\ pc'[p] \notin {"save_dump", "delete"})
              => \A e \in CompletedBeforeWrite(p) :
                     e.key \in LedgerKeys(tracker_file')]_vars

\* --------------------------------------------------------------------- C12
\* C12: while upload_tracker.json cannot be read or parsed, no slot is
\* reported as completed, and a dispatch that makes its ledger check then
\* goes on to the lock instead of returning as already done.
C12_Inv ==
    ~tracker_file.valid =>
        \A i \in SlotIdx : ~is_upload_completed_today(tracker_file, upload_times[i], now)
C12_Step ==
    \A p \in Threads :
        (pc[p] = "check" /\ ~tracker_file.valid /\ pc'[p] # pc[p])
            => /\ pc'[p] = "acquire"
               /\ last'[p] # "skip_completed"
C12_UnreadableLedgerNeverSkips == [](C12_Inv) /\ [][C12_Step]_vars
C12_Witness == pc["sched"] = "acquire" /\ ~tracker_file.valid

\* --------------------------------------------------------------------- C13
\* C13: a call of _cleanup_old_entries removes from the loaded ledger exactly
\* the entries dated more than RetentionDays days before today and keeps
\* every entry dated within the last RetentionDays days, on whatever day and
\* after whatever earlier calls it is made.
C13_PruneRemovesExactlyOldEntries ==
    [][\A p \in Threads :
          (pc[p] = "cleanup" /\ pc'[p] = "lookup")
              => /\ tracker_data'[p] \subseteq tracker_data[p]
                 /\ \A e \in tracker_data[p] :
                        e \in tracker_data'[p]
                            <=> Date(now) - e.timestamp <= RetentionDays]_vars
\* the call dropped an entry dated 9 days ago and kept one dated 3 days ago
C13_Witness ==
    /\ pc["manual"] = "lookup"
    /\ \E e \in load_upload_tracker(tracker_file) :
           Date(now) - e.timestamp = 9 /\ e \notin tracker_data["manual"]
    /\ \E e \in tracker_data["manual"] : Date(now) - e.timestamp = 3

\* --------------------------------------------------------------------- C14
\* C14: an exception that leaves a dispatch never ends the scheduler thread:
\* the caller (the sweep or the polling loop) takes its next step inside the
\* loop with is_running and the jobs untouched, and a started scheduler
\* thread is never found ended.
C14_Inv == jobs # << >> => pc["sched"] # "off"
C14_Step ==
    (pc["sched"] \in {"sweep_ret", "job_ret"} /\ exc["sched"]
                                              /\ pc'["sched"] # pc["sched"])
        => /\ pc'["sched"] = (IF pc["sched"] = "sweep_ret" THEN "sweep" ELSE "jobs")
           /\ is_running' = is_running
           /\ jobs' = jobs
C14_LoopSurvivesFailingDispatch == [](C14_Inv) /\ [][C14_Step]_vars
\* the polling loop dispatches a slot again on the day on which its run
\* failed with an exception that reached run_scheduler
C14_Witness ==
    /\ pc["sched"] = "check"
    /\ ctx = "job"
    /\ \E i \in DOMAIN csv_log :
           /\ csv_log[i].upload_status = "failed"
           /\ RowKey(csv_log[i]) = UploadKey(now, upload_time["sched"])
           /\ csv_log[i].error_message \in {"generation", "upload"}

\* --------------------------------------------------------------------- C15
\* C15: a pipeline run in flight is never cut short by a stop request or by
\* the signal handler: from a position inside _perform_upload the scheduler
\* thread only moves on inside it or returns to its caller.
C15_StopNeverInterruptsRun ==
    [][pc["sched"] \in PipelinePcs
          => pc'["sched"] \in PipelinePcs \cup {"sweep_ret", "job_ret"}]_vars

\* --------------------------------------------------------------------- C16
\* stop() has returned and the scheduler thread it was to stop still exists
StopReturned == jobs = << >> /\ pc["sched"] # "off" /\ pc["manual"] = "idle"
\* C16: after stop() has returned, the scheduler thread begins no call of
\* generate_and_upload_video, neither from the polling loop nor from the
\* sweep.
C16_NoDispatchAfterStop ==
    [][StopReturned => ~(pc["sched"] # "check" /\ pc'["sched"] = "check")]_vars

\* --------------------------------------------------------------------- C17
\* C17: the instant get_next_upload_time returns is an occurrence of a
\* configured slot strictly after now and at most 24 hours away, and no
\* occurrence of any slot, today's or tomorrow's, lies strictly after now and
\* before it.
C17_NextUploadIsSoonestFuture ==
    pc["sched"] = "sweep_init" =>
        /\ next_upload > now
        /\ next_upload <= now + SecPerDay
        /\ \E i \in SlotIdx :
               next_upload \in { SlotInstant(d, upload_times[i]) :
                                   d \in {Date(now), Date(now) + 1} }
        /\ \A i \in SlotIdx : \A d \in {Date(now), Date(now) + 1} :
               SlotInstant(d, upload_times[i]) > now
                   => next_upload <= SlotInstant(d, upload_times[i])
\* computed at the very instant of a slot: that slot counts for tomorrow
C17_Witness ==
    /\ pc["sched"] = "sweep_init"
    /\ \E i \in SlotIdx : now = SlotInstant(Date(now), upload_times[i])
    /\ Date(next_upload) = Date(now) + 1

\* --------------------------------------------------------------------- C18
\* slot s is due at t or was due at most RecoveryWindow minutes before t
DueInClosedWindow(s, t) ==
    /\ upload_minutes(s) <= current_minutes(t)
    /\ current_minutes(t) <= upload_minutes(s) + RecoveryWindow
\* C18: the start-up sweep calls the dispatch for exactly the slots due in
\* the closed interval [now - RecoveryWindow, now]: each step of its loop goes
\* to the next such slot, the one due exactly now included, and the sweep
\* ends only when none is left.
C18_SweepDispatchesClosedWindow ==
    [][(pc["sched"] = "sweep" /\ pc'["sched"] # "sweep")
          => LET due == { i \in SlotIdx : /\ i >= sweep_i
                                          /\ DueInClosedWindow(upload_times[i], sweep_now) }
             IN  IF due = {}
                 THEN pc'["sched"] = "sweep_done"
                 ELSE /\ pc'["sched"] = "check"
                      /\ \E i \in due : /\ \A j \in due : i <= j
                                        /\ upload_time'["sched"] = upload_times[i]]_vars

\* --------------------------------------------------------------------- C19
\* the RunKey of the pipeline run thread p is in
DispatchKey(p) == <<video_data[p].timestamp, upload_time[p]>>
\* C19: between the ledger check of a dispatch and its publish no other
\* dispatch completes the same RunKey: while a thread is in its run and has
\* not yet published, the ledger holds no entry for its RunKey.
C19_NoCompletionBetweenCheckAndPublish ==
    \A p \in Threads :
        pc[p] \in {"generate", "find", "title", "upload"}
            => DispatchKey(p) \notin LedgerKeys(tracker_file)

\* --------------------------------------------------------------------- C20
\* the run of thread p is on the path taken after generate_video raised
GenerationFailed(p) == video_data[p].error_message = "generation"
\* C20: when generate_video raises, the run goes straight to the audit
\* write with a row of status failed that carries the error message; the
\* audit write appends exactly that one row (none only if the write itself
\* fails); upload_video is not called and the ledger file is not touched.
C20_Step ==
    \A p \in Threads :
        /\ (pc[p] = "generate" /\ pc'[p] = "log")
              => /\ video_data'[p].upload_status = "failed"
                 /\ video_data'[p].error_message = "generation"
                 /\ persistent' = persistent
        /\ (pc[p] = "log" /\ GenerationFailed(p) /\ pc'[p] = "release")
              => /\ csv_log' \in {csv_log, Append(csv_log, CsvRow(video_data[p]))}
                 /\ faults' = faults => csv_log' = Append(csv_log, CsvRow(video_data[p]))
                 /\ tracker_file' = tracker_file
                 /\ published' = published
        /\ (pc[p] = "release" /\ GenerationFailed(p) /\ pc'[p] # "release")
              => persistent' = persistent
C20_GenerationFailureEndsFailed == [][C20_Step]_vars
C20_Witness ==
    /\ pc["sched"] = "release"
    /\ GenerationFailed("sched")
    /\ csv_log # << >>
    /\ csv_log[Len(csv_log)] = CsvRow(video_data["sched"])
    /\ csv_log[Len(csv_log)].upload_status = "failed"
    /\ \A i \in DOMAIN published : published[i].run # video_data["sched"].run
    /\ tracker_file = EmptyTracker

\* --------------------------------------------------------------------- C21
\* the run of thread p is on the path taken after upload_video raised
UploadFailed(p) == video_data[p].error_message = "upload"
\* C21: when upload_video fails, the run goes straight to the audit write
\* with status failed; from there to the release of the lock the ledger file
\* and the published videos do not change, no comment has been attempted and
\* the artifact is still in the output directory.
C21_Step ==
    \A p \in Threads :
        /\ (pc[p] = "upload" /\ pc'[p] # "upload" /\ published' = published)
              => /\ pc'[p] = "log"
                 /\ video_data'[p].upload_status = "failed"
                 /\ video_data'[p].error_message = "upload"
                 /\ video_data'[p].comment = "none"
                 /\ persistent' = persistent
        /\ (pc[p] = "log" /\ UploadFailed(p) /\ pc'[p] # "log")
              => /\ pc'[p] = "release"
                 /\ video_data[p].upload_status = "failed"
                 /\ video_data[p].comment = "none"
                 /\ faults' = faults => csv_log' = Append(csv_log, CsvRow(video_data[p]))
                 /\ tracker_file' = tracker_file
                 /\ published' = published
                 /\ videos' = videos
                 /\ latest_video[p] \in videos'
        /\ (pc[p] = "release" /\ UploadFailed(p) /\ pc'[p] # "release")
              => /\ persistent' = persistent
                 /\ latest_video[p] \in videos'
C21_UploadFailureEndsFailed == [][C21_Step]_vars
C21_Witness ==
    /\ pc["manual"] = "release"
    /\ UploadFailed("manual")
    /\ csv_log # << >>
    /\ csv_log[Len(csv_log)] = CsvRow(video_data["manual"])
    /\ csv_log[Len(csv_log)].upload_status = "failed"
    /\ video_data["manual"].comment = "none"
    /\ latest_video["manual"] \in videos
    /\ tracker_file = EmptyTracker
    /\ published = << >>

\* --------------------------------------------------------------------- C22
\* the comment on the video published by the run of thread p failed
CommentFailed(p) == video_data[p].comment = "failed"
C22_Inv ==
    \A p \in Threads :
        CommentFailed(p)
            => /\ pc[p] \in {"mark", "save_open", "save_dump", "delete", "log", "release"}
               /\ video_data[p].upload_status = "success"
               /\ video_data[p].youtube_video_id \in DOMAIN published
               /\ (faults = 1 /\ pc[p] \in {"delete", "log", "release"})
                     => DispatchKey(p) \in LedgerKeys(tracker_file)
               /\ (faults = 1 /\ pc[p] = "release")
                     => /\ csv_log # << >>
                        /\ csv_log[Len(csv_log)] = CsvRow(video_data[p])
                        /\ csv_log[Len(csv_log)].upload_status = "success"
C22_Step ==
    \A p \in Threads :
        (pc[p] = "comment" /\ pc'[p] # "comment")
            => /\ pc'[p] = "mark"
               /\ video_data'[p] = [video_data[p] EXCEPT !.comment = video_data'[p].comment]
               /\ video_data'[p].comment \in {"ok", "failed"}
               /\ persistent' = persistent
\* C22: a failed _post_comment changes nothing but the comment: the run goes
\* on to mark the ledger with status success, and when the comment is the
\* only thing that failed the ledger holds the RunKey from the save on and
\* the audit record written at the end has status success.
C22_CommentFailureKeepsSuccess == [](C22_Inv) /\ [][C22_Step]_vars
C22_Witness ==
    /\ pc["manual"] = "release"
    /\ CommentFailed("manual")
    /\ csv_log # << >>
    /\ csv_log[Len(csv_log)].upload_status = "success"
    /\ DispatchKey("manual") \in LedgerKeys(tracker_file)

\* --------------------------------------------------------------------- C23
\* the removal of the artifact published by the run of thread p failed
DeleteFailed(p) == video_data[p].error_message = "delete"
C23_Inv ==
    \A p \in Threads :
        /\ pc[p] \in {"comment", "mark", "save_open", "save_dump", "delete"}
              => latest_video[p] \in videos
        /\ (pc[p] = "delete" /\ faults = 0)
              => DispatchKey(p) \in LedgerKeys(tracker_file)
        /\ DeleteFailed(p) => pc[p] \in {"log", "release"}
C23_Step ==
    \A p \in Threads :
        /\ (pc[p] = "delete" /\ pc'[p] # "delete")
              => /\ pc'[p] = "log"
                 /\ tracker_file' = tracker_file
                 /\ video_data'[p].upload_status = "success"
                 /\ IF videos' = videos
                    THEN video_data'[p] = [video_data[p] EXCEPT !.error_message = "delete"]
                    ELSE /\ videos' = videos \ {latest_video[p]}
                         /\ video_data'[p] = video_data[p]
        /\ (DeleteFailed(p) /\ pc'[p] # pc[p])
              => /\ tracker_file' = tracker_file
                 /\ videos' = videos
                 /\ (pc[p] = "log" /\ faults' = faults)
                       => /\ csv_log' = Append(csv_log, CsvRow(video_data[p]))
                          /\ csv_log'[Len(csv_log')].upload_status = "success"
                          /\ csv_log'[Len(csv_log')].error_message = "delete"
\* C23: the artifact is in the output directory until the ledger write is
\* over, and the removal starts with the RunKey in the ledger when nothing
\* failed before; a failed removal leaves the status success, puts the
\* warning into error_message, and neither it nor the audit write after it
\* touches the ledger file.
C23_MarkBeforeDelete == [](C23_Inv) /\ [][C23_Step]_vars
C23_Witness ==
    /\ pc["manual"] = "release"
    /\ DeleteFailed("manual")
    /\ csv_log # << >>
    /\ csv_log[Len(csv_log)].upload_status = "success"
    /\ csv_log[Len(csv_log)].error_message = "delete"
    /\ DispatchKey("manual") \in LedgerKeys(tracker_file)
    /\ latest_video["manual"] \in videos

\* --------------------------------------------------------------------- C24
\* C24: create_video_title always returns a title, the generated one or a
\* static fallback, whatever fails in it: the run goes on to upload_video
\* with nothing but the title changed in its row.
C24_Step ==
    \A p \in Threads :
        (pc[p] = "title" /\ pc'[p] # "title")
            => /\ pc'[p] = "upload"
               /\ video_data'[p].title \in {"ai", "fallback"}
               /\ faults' # faults => video_data'[p].title = "fallback"
               /\ video_data'[p] = [video_data[p] EXCEPT !.title = video_data'[p].title]
C24_TitleIsBestEffort == [][C24_Step]_vars

\* --------------------------------------------------------------------- C25
\* the run of thread p found no artifact after generate_video returned
NoArtifact(p) == video_data[p].error_message \in {"nodir", "novideo"}
\* C25: when the output directory is missing or holds no .mp4 file after
\* the generation, the run leaves the lookup for the audit write with status
\* failed and a message that names the generation; up to the release of the
\* lock upload_video is not called and the ledger file does not change.
C25_Step ==
    \A p \in Threads :
        /\ (pc[p] = "find" /\ (~outDir \/ videos = {}) /\ pc'[p] # "find")
              => /\ pc'[p] = "log"
                 /\ video_data'[p].upload_status = "failed"
                 /\ video_data'[p].error_message = IF ~outDir THEN "nodir" ELSE "novideo"
                 /\ csv_log' \in {csv_log, Append(csv_log, CsvRow(video_data'[p]))}
                 /\ tracker_file' = tracker_file
                 /\ published' = published
        /\ (NoArtifact(p) /\ pc'[p] # pc[p])
              => /\ pc[p] \in {"log", "release"}
                 /\ video_data[p].upload_status = "failed"
                 /\ tracker_file' = tracker_file
                 /\ published' = published
                 /\ (pc[p] = "log" /\ faults' = faults)
                       => csv_log' = Append(csv_log, CsvRow(video_data[p]))
C25_NoArtifactEndsFailed == [][C25_Step]_vars
C25_Witness ==
    /\ pc["manual"] = "release"
    /\ NoArtifact("manual")
    /\ outDir
    /\ videos = {}
    /\ csv_log # << >>
    /\ csv_log[Len(csv_log)].upload_status = "failed"
    /\ csv_log[Len(csv_log)].error_message = "novideo"
    /\ published = << >>
    /\ tracker_file = EmptyTracker

\* --------------------------------------------------------------------- C26
\* the entries of the persisted ledger that are older than the retention
\* window at time t
OldEntries(file, t) ==
    { e \in load_upload_tracker(file) : e.timestamp < Date(t) - RetentionDays }
\* C26: once a ledger check has returned, or a ledger write has been
\* saved, the ledger file holds no entry older than the retention window.
C26_Step ==
    \A p \in Threads :
        /\ (pc[p] = "lookup" /\ pc'[p] # "lookup") => OldEntries(tracker_file', now') = {}
        /\ (pc[p] = "save_dump" /\ pc'[p] # "save_dump")
              => OldEntries(tracker_file', now') = {}
C26_LedgerFileIsPruned == [][C26_Step]_vars

\* --------------------------------------------------------------------- C27
\* the keys of an in-memory tracker dict
DictKeys(data) == { e.key : e \in data }
\* C27: _mark_upload_completed adds the RunKey to the keys the ledger holds
\* and changes no other key, so a second call for a RunKey the ledger
\* already holds leaves the key set as it is; after the save of either call
\* the ledger check answers true for the slot.
C27_Step ==
    \A p \in Threads :
        /\ (pc[p] = "mark" /\ pc'[p] # "mark")
              => /\ DictKeys(tracker_data'[p])
                       = LedgerKeys(tracker_file) \cup {UploadKey(now, upload_time[p])}
                 /\ UploadKey(now, upload_time[p]) \in LedgerKeys(tracker_file)
                       => DictKeys(tracker_data'[p]) = LedgerKeys(tracker_file)
        /\ (pc[p] = "save_dump" /\ pc'[p] # "save_dump" /\ faults' = faults)
              => /\ LedgerKeys(tracker_file') = DictKeys(tracker_data[p])
                 /\ is_upload_completed_today(tracker_file', upload_time[p], now')
C27_MarkIsIdempotent == [][C27_Step]_vars
\* a second run for a RunKey has marked and saved the ledger
C27_Witness ==
    \E p \in Threads :
        /\ pc[p] = "delete"
        /\ Cardinality(Publishes(DispatchKey(p))) = 2
        /\ LedgerKeys(tracker_file) = {DispatchKey(p)}

\* --------------------------------------------------------------------- C28
\* the slots whose daily job is due at time t
DueSlots(js, t) == { js[i].slot : i \in { j \in DOMAIN js : js[j].next_run <= t } }
\* the position of slot s in upload_times
SlotIndex(s) == CHOOSE i \in SlotIdx : upload_times[i] = s
\* the instant the daily job of slot s is due
NextRunOf(js, s) ==
    LET j == CHOOSE i \in DOMAIN js : js[i].slot = s IN js[j].next_run
\* what every pass of the polling loop does, whatever the order of the due
\* slots: the pass collects every due slot once, dispatches them from the
\* head with the lock not held by the loop, and after a run that returned,
\* failed or not, goes on with the rest; a run that raised ends the pass
\* with the jobs as they were, so the rest is still due at the next poll
C28_Pass ==
    /\ (pc["sched"] = "loop" /\ pc'["sched"] = "jobs")
          => /\ { pending'[a] : a \in DOMAIN pending' } = DueSlots(jobs, now)
             /\ Len(pending') = Cardinality(DueSlots(jobs, now))
    /\ (pc["sched"] = "jobs" /\ pending # << >> /\ pc'["sched"] # "jobs")
          => /\ pc'["sched"] = "check"
             /\ upload_time'["sched"] = Head(pending)
             /\ upload_lock # "sched"
    /\ (pc["sched"] = "job_ret" /\ pc'["sched"] # "job_ret")
          => IF exc["sched"]
             THEN jobs' = jobs
             ELSE pending' = Tail(pending) /\ pc'["sched"] = "jobs"
\* C28 as stated: slots due together are dispatched one after the other in
\* the order of upload_times, none skipped.
C28_DueSlotsInConfiguredOrder ==
    [][/\ C28_Pass
       /\ (pc["sched"] = "loop" /\ pc'["sched"] = "jobs")
             => \A a, b \in DOMAIN pending' :
                    a < b => SlotIndex(pending'[a]) < SlotIndex(pending'[b])]_vars
\* C28 as the code has it: slots due together are dispatched one after the
\* other in the order of their due instants (slots due at the same instant
\* in the order of upload_times), none skipped.
C28_DueSlotsInDueOrder ==
    [][/\ C28_Pass
       /\ (pc["sched"] = "loop" /\ pc'["sched"] = "jobs")
             => \A a, b \in DOMAIN pending' :
                    a < b => \/ NextRunOf(jobs, pending'[a]) < NextRunOf(jobs, pending'[b])
                             \/ /\ NextRunOf(jobs, pending'[a]) = NextRunOf(jobs, pending'[b])
                                /\ SlotIndex(pending'[a]) < SlotIndex(pending'[b])]_vars
\* the first of several due slots has run and failed, the rest is pending
C28_Witness ==
    /\ pc["sched"] = "job_ret"
    /\ ~exc["sched"]
    /\ Len(pending) >= 2
    /\ upload_time["sched"] = Head(pending)
    /\ csv_log # << >>
    /\ csv_log[Len(csv_log)].upload_status = "failed"
    /\ csv_log[Len(csv_log)].upload_time_slot = Head(pending)

C29_Step ==
    /\ (pc["sched"] = "loop" /\ pc'["sched"] = "jobs")
          => \A i \in DOMAIN jobs :
                 jobs[i].next_run + RecoveryWindow * SecPerMin < now
                     => \E a \in DOMAIN pending' : pending'[a] = jobs[i].slot
    /\ (pc["sched"] = "jobs" /\ pc'["sched"] = "check")
          => NextRunOf(jobs, upload_time'["sched"]) <= now
    /\ (pc["sched"] = "job_ret" /\ ~exc["sched"] /\ pc'["sched"] # "job_ret")
          => /\ NextRunOf(jobs', upload_time["sched"]) > now
             /\ NextRunOf(jobs', upload_time["sched"])
                    = NextOccurrence(upload_time["sched"], now)
C30_Step ==
    /\ (tracker_file' # tracker_file \/ csv_log' # csv_log)
          => \E p \in Threads : /\ upload_lock = p
                                /\ upload_lock' = p
                                /\ pc[p] \in PipelinePcs
                                /\ pc'[p] # pc[p]
    /\ \A p \in Threads :
          (pc'[p] # pc[p] /\ upload_lock # p)
              => tracker_file' = tracker_file /\ csv_log' = csv_log
C30_WritesOnlyUnderLock == [][C30_Step]_vars
\* one thread has written both files and still holds the lock while the
\* other is between its ledger check and its attempt to acquire
C30_Witness ==
    \E p, q \in Threads :
        /\ p # q
        /\ upload_lock = p
        /\ pc[p] = "release"
        /\ csv_log # << >>
        /\ csv_log[Len(csv_log)] = CsvRow(video_data[p])
        /\ DispatchKey(p) \in LedgerKeys(tracker_file)
        /\ pc[q] = "acquire"

\* --------------------------------------------------------------------- C31
\* C31: every step, of a dispatch or of a construction of the scheduler,
\* leaves the audit log as it was or with records added at its end: the
\* records written earlier are all there, unchanged and in their order.
C31_AuditLogAppendOnly ==
    [][/\ Len(csv_log') >= Len(csv_log)
       /\ SubSeq(csv_log', 1, Len(csv_log)) = csv_log]_vars
\* a run writes its record after a construction that found earlier records
C31_Witness ==
    /\ pc["manual"] = "release"
    /\ Len(csv_log) >= 3
    /\ csv_log[Len(csv_log)] = CsvRow(video_data["manual"])

\* --------------------------------------------------------------------- C32
\* C32: the audit write at the end of a run, failed or not, raises nothing
\* and touches neither the ledger file nor the lock; the release that
\* follows frees the lock and the call returns to its caller, as a call that
\* ran unless an exception was already on its way before the write.
C32_Step ==
    \A p \in Threads :
        /\ (pc[p] = "log" /\ pc'[p] # "log")
              => /\ pc'[p] = "release"
                 /\ exc'[p] = exc[p]
                 /\ tracker_file' = tracker_file
                 /\ upload_lock' = upload_lock
                 /\ csv_log' \in {csv_log, Append(csv_log, CsvRow(video_data[p]))}
        /\ (pc[p] = "release" /\ pc'[p] # "release")
              => /\ upload_lock' = "free"
                 /\ pc'[p] = ReturnPc(p)
                 /\ tracker_file' = tracker_file
                 /\ last'[p] = IF exc[p] THEN "raised" ELSE "ran"
C32_AuditFailureKeepsBookkeeping == [][C32_Step]_vars
\* a published and marked run whose audit write failed has returned
C32_Witness ==
    /\ pc["manual"] = "trigger_ret"
    /\ last["manual"] = "ran"
    /\ csv_log = << >>
    /\ published # << >>
    /\ UploadKey(now, upload_time["manual"]) \in LedgerKeys(tracker_file)
    /\ upload_lock = "free"

\* --------------------------------------------------------------------- C33
\* slot s has come while the scheduler, started before it, is running: its
\* daily job is due and not the one being run, and the runs and failures
\* the model still allows are enough for every job that is due
SlotHasCome(s) ==
    /\ is_running
    /\ pc["sched"] # "off"
    /\ upload_time["sched"] # s
    /\ \E i \in DOMAIN jobs : jobs[i].slot = s /\ jobs[i].next_run <= now
    /\ runs + Cardinality(DueSlots(jobs, now)) + (MaxFaults - faults) <= MaxRuns
\* the polling loop calls generate_and_upload_video for slot s
Dispatched(s) ==
    pc["sched"] = "check" /\ ctx = "job" /\ upload_time["sched"] = s
TriggeredRunSucceeded ==
    /\ last["manual"] \in {"ran", "raised"}
    /\ \E i \in DOMAIN published : published[i].run = runs
\* C34: test_trigger_now returns True exactly when the run it triggered
\* published, and False when that run failed or when no run was made.
C34_TriggerReturnsSuccess ==
    [][(pc["manual"] = "trigger_ret" /\ pc'["manual"] = "idle")
          => (test_trigger_now_result(exc["manual"]) <=> TriggeredRunSucceeded)]_vars

\* --------------------------------------------------------------------- C35
\* C35: is_running goes from False to True only in a thread that start()
\* created after the last stop(): not while stop() waits in its join, and
\* not after stop() has returned and cleared the jobs.
C35_StoppedStaysStopped ==
    [][(~is_running /\ is_running')
          => /\ pc["manual"] \notin {"joining", "signal_join"}
             /\ jobs # << >>]_vars

\* --------------------------------------------------------------------- C36
\* C36: at no time are two threads executing run_scheduler.
C36_OneSchedulerLoop ==
    ~(pc["sched"] \notin {"off", "thread_start"} /\ second = "running")

\* --------------------------------------------------------------------- C37
\* C37: the key _mark_upload_completed adds to the tracker is the RunKey of
\* the run, the one that was checked before the run: the date on which the
\* run began and its slot.
C37_MarkedKeyIsCheckedKey ==
    [][\A p \in Threads :
          (pc[p] = "mark" /\ pc'[p] # "mark")
              => /\ DispatchKey(p) \in DictKeys(tracker_data'[p])
                 /\ DictKeys(tracker_data'[p]) \ LedgerKeys(tracker_file)
                        \subseteq {DispatchKey(p)}]_vars

\* --------------------------------------------------------------------- C38
\* C38: the dict _mark_upload_completed is about to save holds every key
\* of the ledger file, and the save that succeeds writes exactly that dict:
\* the call only adds its RunKey, whether its read of the file succeeded or
\* not.
C38_MarkKeepsEntries ==
    [][\A p \in Threads :
          /\ (pc[p] = "mark" /\ pc'[p] # "mark")
                => LedgerKeys(tracker_file) \subseteq DictKeys(tracker_data'[p])
          /\ (pc[p] = "save_dump" /\ pc'[p] # "save_dump" /\ faults' = faults)
                => LedgerKeys(tracker_file') = DictKeys(tracker_data[p])]_vars

\* --------------------------------------------------------------------- C39
\* C39: the file a run hands to upload_video is the one generate_video
\* made in that run.
C39_PublishedArtifactIsOwn ==
    [][\A p \in Threads :
          (pc[p] = "upload" /\ published' # published)
              => published'[Len(published')].file = video_data[p].run]_vars

\* --------------------------------------------------------------------- C40
\* C40: a row of the audit log says success exactly when it carries a video
\* id, the id is the one upload_video returned for the row's own date and
\* slot, and a failed row carries none; the same holds of the row a run is
\* building once upload_video has returned.
RowIsConsistent(r) ==
    /\ (r.upload_status = "success") <=> (r.youtube_video_id # 0)
    /\ r.youtube_video_id # 0
          => /\ r.youtube_video_id \in DOMAIN published
             /\ published[r.youtube_video_id].key
                   = << r.timestamp, r.upload_time_slot >>
C40_SuccessIffPublished ==
    /\ \A i \in DOMAIN csv_log : RowIsConsistent(csv_log[i])
    /\ \A p \in Threads :
          pc[p] \in {"comment", "mark", "save_open", "save_dump", "delete", "log"}
              => RowIsConsistent(CsvRow(video_data[p]))
\* a published run whose ledger mark did not reach the file is on record as
\* a success with its video id
C40_Witness ==
    /\ \A p \in Threads : pc[p] \notin PipelinePcs
    /\ \E i \in DOMAIN csv_log :
          /\ csv_log[i].upload_status = "success"
          /\ csv_log[i].youtube_video_id # 0
          /\ << csv_log[i].timestamp, csv_log[i].upload_time_slot >>
                \notin LedgerKeys(tracker_file)
====
